---- MODULE Spec2Model ----
(***************************************************************************)
(* Attendance tracker (src/App.js): the React component App, its state,    *)
(* its handlers and the AsyncStorage record it loads and saves.            *)
(*                                                                         *)
(* JavaScript strings are sequences of one-character strings.  Subject     *)
(* objects live in a heap (objs) and a profile holds references to them:   *)
(* updateAttendance copies the subjects array but mutates the subject      *)
(* object in place, so every snapshot that shares the object sees it.      *)
(*                                                                         *)
(* A handler runs with the attendanceData of the latest render; the catch  *)
(* block of saveData and the buttons of the delete Alert keep the          *)
(* attendanceData of the render that created them.  setItem calls settle   *)
(* in the order they were made.  A handler may be called with any text:    *)
(* the disabled prop of the buttons is not part of the model.              *)
(***************************************************************************)
EXTENDS Integers, Sequences, FiniteSets, TLC

VARIABLES
  objs,               \* heap: subject object id -> [name, present, absent]
  attendanceData,     \* useState line 23: [name, subjects (object ids)]
  searchQuery,        \* useState line 27
  isAddModalVisible,  \* useState line 28
  showNamePrompt,     \* useState line 30
  isLoading,          \* useState line 32
  storage,            \* AsyncStorage record at STORAGE_KEY: <<>> or <<text>>
  pending,            \* setItem calls in flight, oldest first
  pendingDelete,      \* the open 'Delete Subject' Alert: <<>> or <<closure>>
  loadResult,         \* how loadData ended: "loading", "found", "absent", "failed"
  lastOp,             \* the handler that ran last and what it reported
  issued,             \* how many setItem calls the handlers have made
  pct                 \* a calculatePercentage call: its arguments and its result

vars == <<objs, attendanceData, searchQuery, isAddModalVisible, showNamePrompt,
          isLoading, storage, pending, pendingDelete, loadResult, lastOp, issued, pct>>

\* ------------------------------------------------------------------ bounds
MaxObjs == 3        \* subject objects alive at once
MaxCount == 2       \* largest counter value a press may start from
MaxPending == 2     \* setItem calls in flight at once
MaxSaves == 3       \* setItem calls made in one behaviour

ObjIds == 1..MaxObjs

\* ----------------------------------------------------------------- strings
Spaces == {" "}

LowerOf(c) == IF c = "M" THEN "m" ELSE IF c = "A" THEN "a" ELSE IF c = "U" THEN "u" ELSE c

\* String.prototype.toLowerCase
ToLowerCase(s) == [i \in 1..Len(s) |-> LowerOf(s[i])]

RECURSIVE TrimStart(_)
TrimStart(s) == IF s # <<>> /\ Head(s) \in Spaces THEN TrimStart(Tail(s)) ELSE s

RECURSIVE TrimEnd(_)
TrimEnd(s) ==
  IF s # <<>> /\ s[Len(s)] \in Spaces THEN TrimEnd(SubSeq(s, 1, Len(s) - 1)) ELSE s

\* a trim that leaves the leading white space
TrimEndOnly(s) == TrimEnd(s)

\* String.prototype.trim
Trim(s) == TrimEnd(TrimStart(s))

\* String.prototype.includes
Includes(s, q) ==
  \E i \in 0..(Len(s) - Len(q)) : SubSeq(s, i + 1, i + Len(q)) = q

\* the texts a user types into the name prompt, the add dialog and the search box
NameInputs == { <<>>, <<" ">>, <<" ", "u">> }
SubjectInputs == { <<>>, <<" ">>, <<"m">>, <<" ", "M">>, <<"a">> }
QueryInputs == { <<>>, <<"M">> }

\* a record an earlier session left in storage
StoredProfile ==
  [name |-> <<"u">>,
   subjects |-> << [name |-> <<"m">>, present |-> 1, absent |-> 0],
                   [name |-> <<"a">>, present |-> 0, absent |-> 0] >>]

StoredInputs == { <<>>, <<StoredProfile>> }

\* ------------------------------------------------------------ heap, JSON
EmptyProfile == [name |-> <<>>, subjects |-> <<>>]

\* a heap cell that holds no object
NoObj == [name |-> <<>>, present |-> 0 - 1, absent |-> 0 - 1]

EmptyHeap == [o \in ObjIds |-> NoObj]

\* the value a profile denotes in heap h: what the screen shows
Deref(p, h) == [name |-> p.name, subjects |-> [i \in 1..Len(p.subjects) |-> h[p.subjects[i]]]]

\* JSON.stringify(newData): the text carries the values the objects hold at the call
Stringify(p, h) == Deref(p, h)

Range(s) == { s[i] : i \in 1..Len(s) }

\* the objects some snapshot still references: the state, the closures of the
\* saves in flight and the closure of the open delete dialog
Live(ad, pend, pd) ==
  Range(ad.subjects)
    \cup UNION { Range(pend[i].revert.subjects) : i \in 1..Len(pend) }
    \cup UNION { Range(pd[i].closure.subjects) : i \in 1..Len(pd) }

\* unreferenced objects are collected
Collect(h, ad, pend, pd) == [o \in ObjIds |-> IF o \in Live(ad, pend, pd) THEN h[o] ELSE NoObj]

FreeIds(h) == { o \in ObjIds : h[o] = NoObj }

NewId(h) == CHOOSE o \in FreeIds(h) : \A x \in FreeIds(h) : o <= x

RECURSIVE ParseSubjectsPresentLost(_, _)
\* a parse that reads every present counter as 0
ParseSubjectsPresentLost(subs, h) ==
  IF subs = <<>> THEN <<(<<>>), h>>
  ELSE LET o == NewId(h)
           rest == ParseSubjectsPresentLost(Tail(subs),
                                            [h EXCEPT ![o] = [Head(subs) EXCEPT !.present = 0]])
       IN  <<(<<o>>) \o rest[1], rest[2]>>

RECURSIVE ParseSubjects(_, _)
\* the fresh objects JSON.parse builds for the subjects array, as <<ids, heap>>
ParseSubjects(subs, h) ==
  IF subs = <<>> THEN <<(<<>>), h>>
  ELSE LET o == NewId(h)
           rest == ParseSubjects(Tail(subs), [h EXCEPT ![o] = Head(subs)])
       IN  <<(<<o>>) \o rest[1], rest[2]>>

NoAlert == "none"

\* no calculatePercentage call is being followed
NoCall == [present |-> 0, absent |-> 0, result |-> <<>>]

\* what the last step did: its name, the Alert it showed, whether it threw, and
\* for a settled save the handler that had issued it
Op(name, alert) == [op |-> name, alert |-> alert, threw |-> FALSE, of |-> "none"]

Threw(name) == [op |-> name, alert |-> NoAlert, threw |-> TRUE, of |-> "none"]

Settled(name, alert, of) == [op |-> name, alert |-> alert, threw |-> FALSE, of |-> of]

\* --------------------------------------------------------------- startup
Init ==
  /\ objs = EmptyHeap
  /\ attendanceData = EmptyProfile
  /\ searchQuery = <<>>
  /\ isAddModalVisible = FALSE
  /\ showNamePrompt = FALSE
  /\ isLoading = TRUE
  /\ storage \in StoredInputs
  /\ pending = <<>>
  /\ pendingDelete = <<>>
  /\ loadResult = "loading"
  /\ lastOp = Op("start", NoAlert)
  /\ issued = 0
  /\ pct = NoCall

\* the process is killed and launched again: memory is lost, the record stays
Restart ==
  /\ lastOp.op # "start"
  /\ objs' = EmptyHeap
  /\ attendanceData' = EmptyProfile
  /\ searchQuery' = <<>>
  /\ isAddModalVisible' = FALSE
  /\ showNamePrompt' = FALSE
  /\ isLoading' = TRUE
  /\ pending' = <<>>
  /\ pendingDelete' = <<>>
  /\ loadResult' = "loading"
  /\ lastOp' = Op("start", NoAlert)
  /\ UNCHANGED <<storage, issued, pct>>

\* ----------------------------------------------------------------- loadData
\* getItem resolves with the stored text and JSON.parse succeeds
LoadFound ==
  /\ isLoading
  /\ storage # <<>>
  /\ LET data == storage[1]
         parsed == ParseSubjects(data.subjects, EmptyHeap)
     IN  /\ attendanceData' = [name |-> data.name, subjects |-> parsed[1]]
         /\ objs' = parsed[2]
  /\ isLoading' = FALSE
  /\ loadResult' = "found"
  /\ lastOp' = Op("loadData", NoAlert)
  /\ UNCHANGED <<searchQuery, isAddModalVisible, showNamePrompt, storage, pending, pendingDelete, issued, pct>>

\* getItem resolves with null: no record was ever written
LoadAbsent ==
  /\ isLoading
  /\ storage = <<>>
  /\ showNamePrompt' = TRUE
  /\ isLoading' = FALSE
  /\ loadResult' = "absent"
  /\ lastOp' = Op("loadData", NoAlert)
  /\ UNCHANGED <<objs, attendanceData, searchQuery, isAddModalVisible, storage, pending, pendingDelete, issued, pct>>

\* getItem rejects or JSON.parse throws: the catch block and finally run
LoadFail ==
  /\ isLoading
  /\ isLoading' = FALSE
  /\ loadResult' = "failed"
  /\ lastOp' = Op("loadData", "Failed to load attendance data")
  /\ UNCHANGED <<objs, attendanceData, searchQuery, isAddModalVisible, showNamePrompt, storage, pending, pendingDelete, issued, pct>>

\* ----------------------------------------------------------------- saveData
CanSave == Len(pending) < MaxPending /\ issued < MaxSaves

\* saveData(newData) of the render whose attendanceData is closure: the text is
\* built at the call; before (the values shown right before the handler ran)
\* and op are kept for the record only
SaveData(newData, closure, h, before, op) ==
  [data |-> Stringify(newData, h), revert |-> closure, before |-> before, op |-> op]

\* setItem resolves: the whole record is replaced
SaveOk ==
  /\ pending # <<>>
  /\ storage' = <<Head(pending).data>>
  /\ pending' = Tail(pending)
  /\ objs' = Collect(objs, attendanceData, Tail(pending), pendingDelete)
  /\ lastOp' = Settled("saveOk", NoAlert, Head(pending).op)
  /\ UNCHANGED <<attendanceData, searchQuery, isAddModalVisible, showNamePrompt, isLoading, pendingDelete, issued, loadResult, pct>>

\* setItem rejects: the catch block sets the state to the closure's attendanceData
SaveFail ==
  /\ pending # <<>>
  /\ attendanceData' = Head(pending).revert
  /\ pending' = Tail(pending)
  /\ objs' = Collect(objs, Head(pending).revert, Tail(pending), pendingDelete)
  /\ lastOp' = Settled("saveFail", "Failed to save data. Please try again.", Head(pending).op)
  /\ UNCHANGED <<searchQuery, isAddModalVisible, showNamePrompt, isLoading, storage, pendingDelete, issued, loadResult, pct>>

\* --------------------------------------------------------- handleNameSubmit
\* the name prompt is the Modal shown while showNamePrompt holds
HandleNameSubmit(tempName) ==
  /\ ~isLoading
  /\ showNamePrompt
  /\ IF Trim(tempName) = <<>>
     THEN /\ lastOp' = Op("handleNameSubmit", "Please enter a valid name")
          /\ UNCHANGED <<objs, attendanceData, searchQuery, isAddModalVisible, showNamePrompt,
                         isLoading, storage, pending, pendingDelete, issued, loadResult, pct>>
     ELSE LET newData == [attendanceData EXCEPT !.name = Trim(tempName)]
          IN  /\ CanSave
              /\ attendanceData' = newData
              /\ pending' = Append(pending, SaveData(newData, attendanceData, objs,
                                                     Deref(attendanceData, objs), "handleNameSubmit"))
              /\ showNamePrompt' = FALSE
              /\ lastOp' = Op("handleNameSubmit", NoAlert)
              /\ UNCHANGED <<objs, searchQuery, isAddModalVisible, isLoading, storage, pendingDelete, loadResult, pct>>
              /\ issued' = issued + 1

\* ---------------------------------------------------------------- main screen
\* the cards and buttons of the main screen take touches when nothing covers it
MainScreen == ~isLoading /\ ~showNamePrompt /\ ~isAddModalVisible /\ pendingDelete = <<>>

\* 'Add Subject' button
OpenAddModal ==
  /\ MainScreen
  /\ isAddModalVisible' = TRUE
  /\ lastOp' = Op("openAddModal", NoAlert)
  /\ UNCHANGED <<objs, attendanceData, searchQuery, showNamePrompt, isLoading, storage, pending, pendingDelete, issued, loadResult, pct>>

\* 'Cancel' button of the add dialog
CancelAddModal ==
  /\ ~isLoading
  /\ isAddModalVisible
  /\ isAddModalVisible' = FALSE
  /\ lastOp' = Op("cancelAddModal", NoAlert)
  /\ UNCHANGED <<objs, attendanceData, searchQuery, showNamePrompt, isLoading, storage, pending, pendingDelete, issued, loadResult, pct>>

\* the duplicate test with the toLowerCase calls left out
IsDuplicateCaseSensitive(p, h, newSubjectName) ==
  \E i \in 1..Len(p.subjects) : h[p.subjects[i]].name = Trim(newSubjectName)

\* the duplicate test with the trim call left out
IsDuplicateUntrimmed(p, h, newSubjectName) ==
  \E i \in 1..Len(p.subjects) :
    ToLowerCase(h[p.subjects[i]].name) = ToLowerCase(newSubjectName)

\* the duplicate test of handleAddSubject
IsDuplicate(p, h, newSubjectName) ==
  \E i \in 1..Len(p.subjects) :
    ToLowerCase(h[p.subjects[i]].name) = ToLowerCase(Trim(newSubjectName))

HandleAddSubject(newSubjectName) ==
  /\ ~isLoading
  /\ isAddModalVisible
  /\ IF Trim(newSubjectName) = <<>>
     THEN /\ lastOp' = Op("handleAddSubject", "Please enter a subject name")
          /\ UNCHANGED <<objs, attendanceData, searchQuery, isAddModalVisible, showNamePrompt,
                         isLoading, storage, pending, pendingDelete, issued, loadResult, pct>>
     ELSE IF IsDuplicate(attendanceData, objs, newSubjectName)
     THEN /\ lastOp' = Op("handleAddSubject", "This subject already exists")
          /\ UNCHANGED <<objs, attendanceData, searchQuery, isAddModalVisible, showNamePrompt,
                         isLoading, storage, pending, pendingDelete, issued, loadResult, pct>>
     ELSE /\ CanSave
          /\ FreeIds(objs) # {}
          /\ LET o == NewId(objs)
                 h == [objs EXCEPT ![o] = [name |-> Trim(newSubjectName), present |-> 0, absent |-> 0]]
                 newData == [attendanceData EXCEPT !.subjects = Append(@, o)]
             IN  /\ attendanceData' = newData
                 /\ objs' = h
                 /\ pending' = Append(pending, SaveData(newData, attendanceData, h,
                                                        Deref(attendanceData, objs), "handleAddSubject"))
          /\ isAddModalVisible' = FALSE
          /\ lastOp' = Op("handleAddSubject", NoAlert)
          /\ UNCHANGED <<searchQuery, showNamePrompt, isLoading, storage, pendingDelete, loadResult, pct>>
          /\ issued' = issued + 1

\* the search box
SetSearchQuery(q) ==
  /\ MainScreen
  /\ q # searchQuery
  /\ searchQuery' = q
  /\ lastOp' = Op("setSearchQuery", NoAlert)
  /\ UNCHANGED <<objs, attendanceData, isAddModalVisible, showNamePrompt, isLoading, storage, pending, pendingDelete, issued, loadResult, pct>>

\* the subjects whose cards are drawn
FilteredSubjects ==
  SelectSeq(attendanceData.subjects,
            LAMBDA o : Includes(ToLowerCase(objs[o].name), ToLowerCase(searchQuery)))

\* ------------------------------------------------------------ updateAttendance
\* an update that raises the counter the button does not stand for
UpdateAttendanceSwapped(index, isPresent) ==
  /\ index >= 0 /\ index < Len(attendanceData.subjects)
  /\ LET o == attendanceData.subjects[index + 1]
         h == IF isPresent THEN [objs EXCEPT ![o].absent = @ + 1]
                           ELSE [objs EXCEPT ![o].present = @ + 1]
     IN  /\ CanSave
         /\ IF isPresent THEN objs[o].absent < MaxCount ELSE objs[o].present < MaxCount
         /\ objs' = h
         /\ pending' = Append(pending, SaveData(attendanceData, attendanceData, h,
                                                Deref(attendanceData, objs), "updateAttendance"))
  /\ lastOp' = Op("updateAttendance", NoAlert)
  /\ issued' = issued + 1
  /\ UNCHANGED <<attendanceData, searchQuery, isAddModalVisible, showNamePrompt, isLoading,
                 storage, pendingDelete, loadResult, pct>>

\* index is a JavaScript array index, from 0
UpdateAttendance(index, isPresent) ==
  IF index < 0 \/ index >= Len(attendanceData.subjects)
  THEN \* newSubjects[index] is undefined: reading .present of it throws a TypeError
       /\ lastOp' = Threw("updateAttendance")
       /\ UNCHANGED <<objs, attendanceData, searchQuery, isAddModalVisible, showNamePrompt,
                      isLoading, storage, pending, pendingDelete, issued, loadResult, pct>>
  ELSE LET o == attendanceData.subjects[index + 1]
           newSubjects == attendanceData.subjects
           h == IF isPresent THEN [objs EXCEPT ![o].present = @ + 1]
                             ELSE [objs EXCEPT ![o].absent = @ + 1]
           newData == [attendanceData EXCEPT !.subjects = newSubjects]
       IN  /\ CanSave
           /\ IF isPresent THEN objs[o].present < MaxCount ELSE objs[o].absent < MaxCount
           /\ objs' = h
           /\ attendanceData' = newData
           /\ pending' = Append(pending, SaveData(newData, attendanceData, h,
                                                  Deref(attendanceData, objs), "updateAttendance"))
           /\ lastOp' = Op("updateAttendance", NoAlert)
           /\ UNCHANGED <<searchQuery, isAddModalVisible, showNamePrompt, isLoading, storage, pendingDelete, loadResult, pct>>
           /\ issued' = issued + 1

\* 'Present' or 'Absent' on the card drawn at position index
PressAttendance(index, isPresent) ==
  /\ MainScreen
  /\ index \in 0..(Len(FilteredSubjects) - 1)
  /\ UpdateAttendance(index, isPresent)

\* --------------------------------------------------------------- deleteSubject
\* deleteSubject(index) opens the confirmation Alert; its buttons keep the
\* attendanceData of the render that built the callback
DeleteSubject(index) ==
  /\ pendingDelete' = << [index |-> index, closure |-> attendanceData] >>
  /\ lastOp' = Op("deleteSubject", NoAlert)
  /\ UNCHANGED <<objs, attendanceData, searchQuery, isAddModalVisible, showNamePrompt,
                 isLoading, storage, pending, issued, loadResult, pct>>

\* 'Delete' on the card drawn at position index
PressDelete(index) ==
  /\ MainScreen
  /\ index \in 0..(Len(FilteredSubjects) - 1)
  /\ DeleteSubject(index)

\* subjects.filter((_, i) => i !== index)
FilterOut(subjects, index) ==
  LET keep == { i \in 1..Len(subjects) : i - 1 # index }
      F[i \in 0..Len(subjects)] ==
        IF i = 0 THEN <<>>
        ELSE IF i \in keep THEN Append(F[i - 1], subjects[i]) ELSE F[i - 1]
  IN  F[Len(subjects)]

\* the 'Delete' button of the Alert
DeleteOnPress ==
  /\ pendingDelete # <<>>
  /\ CanSave
  /\ LET index == pendingDelete[1].index
         closure == pendingDelete[1].closure
         newSubjects == FilterOut(closure.subjects, index)
         newData == [closure EXCEPT !.subjects = newSubjects]
         newPending == Append(pending, SaveData(newData, closure, objs,
                                                Deref(attendanceData, objs), "deleteSubject"))
     IN  /\ attendanceData' = newData
         /\ pending' = newPending
         /\ objs' = Collect(objs, newData, newPending, <<>>)
  /\ pendingDelete' = <<>>
  /\ lastOp' = Op("deleteOnPress", NoAlert)
  /\ UNCHANGED <<searchQuery, isAddModalVisible, showNamePrompt, isLoading, storage, loadResult, pct>>
  /\ issued' = issued + 1

\* the 'Cancel' button of the Alert
DeleteCancel ==
  /\ pendingDelete # <<>>
  /\ pendingDelete' = <<>>
  /\ objs' = Collect(objs, attendanceData, pending, <<>>)
  /\ lastOp' = Op("deleteCancel", NoAlert)
  /\ UNCHANGED <<attendanceData, searchQuery, isAddModalVisible, showNamePrompt, isLoading, storage, pending, issued, loadResult, pct>>

\* -------------------------------------------------------- calculatePercentage
MaxArg == 31        \* largest present or absent passed to a followed call

DigitChar(d) == << "0", "1", "2", "3", "4", "5", "6", "7", "8", "9" >>[d + 1]

RECURSIVE Digits(_)
\* String(n) of an integer n >= 0, as a template literal prints it
Digits(n) == IF n < 10 THEN << DigitChar(n) >> ELSE Digits(n \div 10) \o << DigitChar(n % 10) >>

\* toFixed(2) with the fraction cut off instead of rounded
HundredthsTruncated(present, total) == (10000 * present) \div total

\* Number.prototype.toFixed(2) of (present / total) * 100, total > 0, in
\* hundredths: the nearest hundredth, the larger one when two are equally near.
\* While total < 160 the double is exact at every such tie and within rounding
\* error of the quotient elsewhere, so the quotient decides.
Hundredths(present, total) == (20000 * present + total) \div (2 * total)

ToFixed2(n) == Digits(n \div 100) \o << ".", DigitChar((n \div 10) % 10), DigitChar(n % 10) >>

CalculatePercentage(present, absent) ==
  LET total == present + absent
  IN  IF total = 0 THEN << "0", ".", "0", "0" >>
      ELSE ToFixed2(Hundredths(present, total))

\* --------------------------------------------------- calculateTotalAttendance
RECURSIVE Reduce(_, _, _)
\* subjects.reduce((sum, subject) => sum + subject[field], init)
Reduce(field, subjects, init) ==
  IF subjects = <<>> THEN init
  ELSE Reduce(field, Tail(subjects), init + Head(subjects)[field])

\* the total that counts the attended classes only
CalculateTotalAttendanceOfPresent(subjects) ==
  LET totalPresent == Reduce("present", subjects, 0)
      totalAbsent == Reduce("absent", subjects, 0)
  IN  [present |-> totalPresent, total |-> totalPresent,
       percentage |-> CalculatePercentage(totalPresent, totalAbsent)]

\* calculateTotalAttendance over the subjects (by value) of attendanceData
CalculateTotalAttendance(subjects) ==
  LET totalPresent == Reduce("present", subjects, 0)
      totalAbsent == Reduce("absent", subjects, 0)
      totalClasses == totalPresent + totalAbsent
  IN  [present |-> totalPresent, total |-> totalClasses,
       percentage |-> CalculatePercentage(totalPresent, totalAbsent)]

\* ----------------------------------------------------------------- exportToCSV
CsvHeaders ==
  << "S", "u", "b", "j", "e", "c", "t", ",", "C", "l", "a", "s", "s", "e",
     "s", " ", "A", "t", "t", "e", "n", "d", "e", "d", ",", "C", "l", "a",
     "s", "s", "e", "s", " ", "M", "i", "s", "s", "e", "d", ",", "A", "t",
     "t", "e", "n", "d", "a", "n", "c", "e", " ", "P", "e", "r", "c", "e",
     "n", "t", "a", "g", "e", "\n" >>

RECURSIVE Join(_, _)
\* Array.prototype.join
Join(rows, sep) ==
  IF rows = <<>> THEN <<>>
  ELSE IF Len(rows) = 1 THEN rows[1]
  ELSE rows[1] \o sep \o Join(Tail(rows), sep)

\* a row with the missed classes written before the attended ones
CsvRowMissedFirst(subject) ==
  subject.name \o << "," >> \o Digits(subject.absent) \o << "," >> \o Digits(subject.present)
    \o << "," >> \o CalculatePercentage(subject.present, subject.absent) \o << "%" >>

CsvRow(subject) ==
  subject.name \o << "," >> \o Digits(subject.present) \o << "," >> \o Digits(subject.absent)
    \o << "," >> \o CalculatePercentage(subject.present, subject.absent) \o << "%" >>

\* csvContent for the subjects (by value) of attendanceData
CsvContent(subjects) ==
  CsvHeaders \o Join([i \in 1..Len(subjects) |-> CsvRow(subjects[i])], << "\n" >>)

\* what writing and sharing the file can end with: shared, sharing not
\* available, or writeAsStringAsync / shareAsync rejecting
ExportOutcomes ==
  { NoAlert, "Sharing is not available on this device", "Failed to export CSV file" }

\* an export that also writes the profile back through saveData
ExportToCSVSaving ==
  /\ MainScreen
  /\ CanSave
  /\ lastOp' = Op("exportToCSV", IF Len(attendanceData.subjects) = 0
                                 THEN "No data to export" ELSE NoAlert)
  /\ pending' = Append(pending, SaveData(attendanceData, attendanceData, objs,
                                         Deref(attendanceData, objs), "exportToCSV"))
  /\ issued' = issued + 1
  /\ UNCHANGED <<objs, attendanceData, searchQuery, isAddModalVisible, showNamePrompt,
                 isLoading, storage, pendingDelete, loadResult, pct>>

\* 'Export to CSV' button
ExportToCSV ==
  /\ MainScreen
  /\ IF Len(attendanceData.subjects) = 0
     THEN lastOp' = Op("exportToCSV", "No data to export")
     ELSE \E outcome \in ExportOutcomes : lastOp' = Op("exportToCSV", outcome)
  /\ UNCHANGED <<objs, attendanceData, searchQuery, isAddModalVisible, showNamePrompt,
                 isLoading, storage, pending, pendingDelete, loadResult, issued, pct>>

\* ------------------------------------------------------------- specifications
Next ==
  \/ LoadFound
  \/ LoadAbsent
  \/ LoadFail
  \/ Restart
  \/ SaveOk
  \/ SaveFail
  \/ \E t \in NameInputs : HandleNameSubmit(t)
  \/ OpenAddModal
  \/ CancelAddModal
  \/ \E n \in SubjectInputs : HandleAddSubject(n)
  \/ \E q \in QueryInputs : SetSearchQuery(q)
  \/ \E i \in 0..(MaxObjs - 1), b \in BOOLEAN : PressAttendance(i, b)
  \/ \E i \in 0..(MaxObjs - 1) : PressDelete(i)
  \/ DeleteOnPress
  \/ DeleteCancel
  \/ ExportToCSV

Spec == Init /\ [][Next]_vars

\* the handlers called directly, with any index
ApiIndexes == (0 - 1)..MaxObjs

ApiUpdateAttendance(index, isPresent) ==
  /\ MainScreen
  /\ UpdateAttendance(index, isPresent)

ApiDeleteSubject(index) ==
  /\ MainScreen
  /\ DeleteSubject(index)

NextApi ==
  \/ Next
  \/ \E i \in ApiIndexes, b \in BOOLEAN : ApiUpdateAttendance(i, b)
  \/ \E i \in ApiIndexes : ApiDeleteSubject(i)

SpecApi == Init /\ [][NextApi]_vars

\* calculatePercentage followed on its own, over arguments up to MaxArg
InitCalc ==
  /\ objs = EmptyHeap
  /\ attendanceData = EmptyProfile
  /\ searchQuery = <<>>
  /\ isAddModalVisible = FALSE
  /\ showNamePrompt = FALSE
  /\ isLoading = TRUE
  /\ storage = <<>>
  /\ pending = <<>>
  /\ pendingDelete = <<>>
  /\ loadResult = "loading"
  /\ lastOp = Op("start", NoAlert)
  /\ issued = 0
  /\ pct \in [present : 0..MaxArg, absent : 0..MaxArg, result : {<<>>}]

CallCalculatePercentage ==
  /\ pct.result = <<>>
  /\ pct' = [pct EXCEPT !.result = CalculatePercentage(pct.present, pct.absent)]
  /\ lastOp' = Op("calculatePercentage", NoAlert)
  /\ UNCHANGED <<objs, attendanceData, searchQuery, isAddModalVisible, showNamePrompt,
                 isLoading, storage, pending, pendingDelete, loadResult, issued>>

NextCalc == CallCalculatePercentage

SpecCalc == InitCalc /\ [][NextCalc]_vars

\* ---------------------------------------------------------------- properties
\* the profile the screen shows: the in-memory profile by value
Shown == Deref(attendanceData, objs)

\* the profile durable storage holds, the empty profile when it holds none
Durable == IF storage = <<>> THEN EmptyProfile ELSE storage[1]

SaveFailedAlert == "Failed to save data. Please try again."

\* trim-normalised, case-insensitive form of a name
Norm(s) == ToLowerCase(Trim(s))

SubjectOps == {"handleAddSubject", "updateAttendance", "deleteSubject", "deleteOnPress"}

\* C1: when the save issued by updateAttendance fails, the counters shown after
\* the failure is handled are those shown right before that updateAttendance call
C1_FailedRecordRestoresCounters ==
  [][(SaveFail /\ Head(pending).op = "updateAttendance")
       => Deref(attendanceData', objs').subjects = Head(pending).before.subjects]_vars

\* C2: whenever no save is in flight (and the load did not fail) the in-memory
\* profile equals the durable one, or the empty profile when storage holds none
C2_MemoryEqualsDurable ==
  (loadResult \in {"found", "absent"} /\ pending = <<>>) => Shown = Durable

\* C3: there is never more than one save in flight
C3_OneSaveInFlight == Len(pending) <= 1

\* C4: when the save of handleNameSubmit, handleAddSubject or the confirmed delete
\* fails and no mutation was issued after it, the profile shown afterwards is the
\* one shown immediately before that mutation, and the save failure is reported
C4_FailedSaveRestoresProfile ==
  [][(SaveFail /\ Len(pending) = 1
        /\ Head(pending).op \in {"handleNameSubmit", "handleAddSubject", "deleteSubject"})
       => /\ Deref(attendanceData', objs') = Head(pending).before
          /\ lastOp'.alert = SaveFailedAlert]_vars

\* C5: a subject operation is accepted only while the profile name is non-empty
C5_SubjectOpsNeedName ==
  [][(lastOp'.op \in SubjectOps /\ lastOp'.alert = NoAlert /\ ~lastOp'.threw)
       => attendanceData.name # <<>>]_vars

\* C6: when loadData resolves without a profile (no record, or the load failed)
\* loading has ended, the profile is empty and the name prompt is shown; a failed
\* load also reports an error
C6_LoadWithoutProfile ==
  (lastOp.op = "loadData" /\ loadResult \in {"absent", "failed"})
    => /\ ~isLoading
       /\ Shown = EmptyProfile
       /\ showNamePrompt
       /\ (loadResult = "failed" => lastOp.alert = "Failed to load attendance data")

\* C7: the subject names of the in-memory profile are pairwise distinct under
\* case-insensitive, trimmed comparison
C7_NamesDistinct ==
  \A i, j \in 1..Len(Shown.subjects) :
    i # j => Norm(Shown.subjects[i].name) # Norm(Shown.subjects[j].name)

C7_Witness ==
  /\ lastOp.op = "saveFail"
  /\ Len(Shown.subjects) >= 2
  /\ storage # <<>> /\ Len(Durable.subjects) # Len(Shown.subjects)

\* C8: handleAddSubject with a name that is empty after trimming, or that equals
\* an existing name case-insensitively after trimming, shows an error, leaves the
\* in-memory profile and the stored record unchanged, and issues no save
C8_AddRejected ==
  [][\A n \in SubjectInputs :
       (/\ HandleAddSubject(n)
        /\ \/ Trim(n) = <<>>
           \/ \E i \in 1..Len(Shown.subjects) : Norm(Shown.subjects[i].name) = Norm(n))
       => /\ lastOp'.alert # NoAlert
          /\ Deref(attendanceData', objs') = Shown
          /\ attendanceData' = attendanceData
          /\ storage' = storage
          /\ pending' = pending
          /\ issued' = issued]_vars

C8_Witness ==
  /\ lastOp = Op("handleAddSubject", "This subject already exists")
  /\ Len(Shown.subjects) >= 1

\* C9: counters are never negative, and no transition lowers a counter of a
\* subject (known by its name) that is in the profile before and after it
C9_CountersNeverLowered ==
  [][/\ \A i \in 1..Len(Shown.subjects) :
          Shown.subjects[i].present >= 0 /\ Shown.subjects[i].absent >= 0
     /\ \A i \in 1..Len(Shown.subjects) :
          \A j \in 1..Len(attendanceData'.subjects) :
            LET old == Shown.subjects[i]
                new == Deref(attendanceData', objs').subjects[j]
            IN  Norm(old.name) = Norm(new.name)
                  => new.present >= old.present /\ new.absent >= old.absent]_vars

\* C10: updateAttendance and deleteSubject called with an index that is negative
\* or not below the number of subjects report an index error without throwing,
\* leave the in-memory profile and the stored record unchanged and issue no save
OutOfBounds(i) == i < 0 \/ i >= Len(attendanceData.subjects)

C10_IndexRejected ==
  [][\A i \in ApiIndexes :
       (OutOfBounds(i) /\ ((\E b \in BOOLEAN : ApiUpdateAttendance(i, b)) \/ ApiDeleteSubject(i)))
       => /\ ~lastOp'.threw
          /\ lastOp'.alert # NoAlert
          /\ Deref(attendanceData', objs') = Shown
          /\ storage' = storage
          /\ pending' = pending
          /\ pendingDelete' = <<>>]_vars

\* the sequence s without its element at the 0-based index i
RemoveAt(s, i) == SubSeq(s, 1, i) \o SubSeq(s, i + 2, Len(s))

\* the index the open delete dialog was asked for lies in the profile shown now
DeleteInBounds ==
  /\ pendingDelete # <<>>
  /\ pendingDelete[1].index \in 0..(Len(attendanceData.subjects) - 1)

\* C11: confirming a delete whose index is in bounds leaves the subjects shown
\* before the confirmation without the one at that index (one fewer, the others
\* with their counters and order kept), and the save it issues carries them
C11_DeleteRemovesOne ==
  [][(DeleteOnPress /\ DeleteInBounds)
       => /\ Len(Shown'.subjects) = Len(Shown.subjects) - 1
          /\ Shown'.subjects = RemoveAt(Shown.subjects, pendingDelete[1].index)
          /\ pending'[Len(pending')].data.subjects = Shown'.subjects]_vars

\* C12: asking for a delete changes neither the profile nor storage and issues
\* no save, Cancel likewise, and confirming removes the subject that is at the
\* requested index of the profile shown at the confirmation, and no other
C12_DeleteOnlyOnConfirm ==
  [][/\ ((\E i \in ApiIndexes : DeleteSubject(i)) \/ DeleteCancel)
          => /\ Shown' = Shown
             /\ attendanceData' = attendanceData
             /\ storage' = storage
             /\ pending' = pending
             /\ issued' = issued
     /\ (DeleteOnPress /\ DeleteInBounds)
          => LET gone == Shown.subjects[pendingDelete[1].index + 1].name
                 Names(subjects) == { subjects[k].name : k \in 1..Len(subjects) }
             IN  Names(Shown'.subjects) = Names(Shown.subjects) \ {gone}]_vars

\* the same two statements against the profile that was shown when the dialog
\* was opened (followed for the record, no claim states them)
DeleteRemovesFromDialogProfile ==
  [][DeleteOnPress
       => LET closure == Deref(pendingDelete[1].closure, objs)
              index == pendingDelete[1].index
          IN  /\ index \in 0..(Len(closure.subjects) - 1)
                   => Shown'.subjects = RemoveAt(closure.subjects, index)
              /\ pending'[Len(pending')].data = Shown']_vars

DigitChars == { "0", "1", "2", "3", "4", "5", "6", "7", "8", "9" }

\* the digit a character stands for
DigitVal(c) == CHOOSE d \in 0..9 : Digits(d) = << c >>

RECURSIVE NatOf(_)
\* the number a non-empty sequence of digit characters denotes
NatOf(ds) == IF Len(ds) = 1 THEN DigitVal(ds[1])
             ELSE 10 * NatOf(SubSeq(ds, 1, Len(ds) - 1)) + DigitVal(ds[Len(ds)])

\* text is digits, a point and exactly two digits, without a needless leading 0
TwoDecimals(text) ==
  /\ Len(text) >= 4
  /\ text[Len(text) - 2] = "."
  /\ \A k \in (1..Len(text)) \ {Len(text) - 2} : text[k] \in DigitChars
  /\ Len(text) > 4 => text[1] # "0"

\* the value of such a text, in hundredths
HundredthsOf(text) ==
  100 * NatOf(SubSeq(text, 1, Len(text) - 3)) + NatOf(SubSeq(text, Len(text) - 1, Len(text)))

Abs(x) == IF x < 0 THEN 0 - x ELSE x

\* C16: for present, absent >= 0 calculatePercentage returns a text with two
\* decimal digits whose value lies in 0.00..100.00 and is a hundredth nearest to
\* present / (present + absent) * 100; it is 0.00 when present + absent = 0
C16_PercentageRounded ==
  pct.result # <<>>
    => LET total == pct.present + pct.absent
           n == HundredthsOf(pct.result)
       IN  /\ TwoDecimals(pct.result)
           /\ 0 <= n /\ n <= 10000
           /\ total = 0 => pct.result = << "0", ".", "0", "0" >>
           /\ total > 0 => 2 * Abs(n * total - 10000 * pct.present) <= total

\* a call whose quotient has more than two decimals and is rounded upwards
C16_Witness ==
  /\ pct.result = << "6", "6", ".", "6", "7" >>
  /\ pct.present = 2 * pct.absent
  /\ pct.absent > 0

\* further calls seen: no classes at all, all attended, a tie between hundredths
C16_SeenEdges ==
  \/ pct.result = <<>>
  \/ ~(\/ pct.present + pct.absent = 0
       \/ pct.absent = 0 /\ pct.present > 0
       \/ pct.present = 1 /\ pct.absent = 31)
  \/ pct.result = IF pct.present + pct.absent = 0 THEN << "0", ".", "0", "0" >>
                  ELSE IF pct.absent = 0 THEN << "1", "0", "0", ".", "0", "0" >>
                  ELSE << "3", ".", "1", "3" >>

\* the header line of the export
HeaderLine ==
  << "S", "u", "b", "j", "e", "c", "t", ",", "C", "l", "a", "s", "s", "e",
     "s", " ", "A", "t", "t", "e", "n", "d", "e", "d", ",", "C", "l", "a",
     "s", "s", "e", "s", " ", "M", "i", "s", "s", "e", "d", ",", "A", "t",
     "t", "e", "n", "d", "a", "n", "c", "e", " ", "P", "e", "r", "c", "e",
     "n", "t", "a", "g", "e" >>

RECURSIVE Split(_, _)
\* the pieces of text between the occurrences of the character sep
Split(text, sep) ==
  IF \A k \in 1..Len(text) : text[k] # sep THEN << text >>
  ELSE LET k == CHOOSE j \in 1..Len(text) :
                  text[j] = sep /\ \A l \in 1..(j - 1) : text[l] # sep
       IN  << SubSeq(text, 1, k - 1) >> \o Split(SubSeq(text, k + 1, Len(text)), sep)

IsNumber(text) == text # <<>> /\ \A k \in 1..Len(text) : text[k] \in DigitChars

\* line is the row of subject: its name, then the attended count, the missed
\* count and the percentage followed by %, separated by commas
IsRowOf(line, subject) ==
  LET n == Len(subject.name)
  IN  /\ Len(line) > n + 1
      /\ SubSeq(line, 1, n) = subject.name
      /\ line[n + 1] = ","
      /\ LET fields == Split(SubSeq(line, n + 2, Len(line)), ",")
         IN  /\ Len(fields) = 3
             /\ IsNumber(fields[1]) /\ NatOf(fields[1]) = subject.present
             /\ IsNumber(fields[2]) /\ NatOf(fields[2]) = subject.absent
             /\ fields[3] = CalculatePercentage(subject.present, subject.absent) \o << "%" >>

\* C14: the text exportToCSV builds for a profile with at least one subject is
\* the header line followed by one row per subject, in the order of the profile,
\* each with that subject's name, present count, absent count and percentage%
C14_CsvRows ==
  (lastOp.op = "exportToCSV" /\ Len(Shown.subjects) >= 1)
    => LET lines == Split(CsvContent(Shown.subjects), "\n")
       IN  /\ lines[1] = HeaderLine
           /\ Len(lines) - 1 = Len(Shown.subjects)
           /\ \A k \in 1..Len(Shown.subjects) : IsRowOf(lines[k + 1], Shown.subjects[k])

\* an export of two or more subjects, one of them with both counters raised
C14_Witness ==
  /\ lastOp = Op("exportToCSV", NoAlert)
  /\ Len(Shown.subjects) >= 2
  /\ \E k \in 1..Len(Shown.subjects) :
       Shown.subjects[k].present >= 1 /\ Shown.subjects[k].absent >= 1

\* C15: exportToCSV and a change of the search query (which is all that filtering
\* the subjects takes) leave the profile and the stored record as they are and
\* issue no save; an export with no subjects reports that there is nothing to
\* export. The percentage and the total are computed from the profile alone.
C15_ReadOnlyOps ==
  [][/\ (ExportToCSV \/ \E q \in QueryInputs : SetSearchQuery(q))
          => /\ attendanceData' = attendanceData
             /\ objs' = objs
             /\ Shown' = Shown
             /\ CalculateTotalAttendance(Shown'.subjects) = CalculateTotalAttendance(Shown.subjects)
             /\ storage' = storage
             /\ pending' = pending
             /\ issued' = issued
     /\ (ExportToCSV /\ Shown.subjects = <<>>)
          => lastOp' = Op("exportToCSV", "No data to export")]_vars

\* an export of an empty list, with a query typed and a save in flight
C15_Witness ==
  /\ lastOp = Op("exportToCSV", "No data to export")
  /\ Shown.subjects = <<>>
  /\ searchQuery # <<>>
  /\ pending # <<>>

RECURSIVE SumOver(_, _)
\* the sum of count[k] over the indexes k in ks
SumOver(ks, count) ==
  IF ks = {} THEN 0
  ELSE LET k == CHOOSE x \in ks : TRUE
       IN  count[k] + SumOver(ks \ {k}, count)

\* C17: in every reachable state calculateTotalAttendance returns the sum of
\* present over the subjects, the sum of present + absent over the subjects,
\* and the percentage the first makes of the second as calculatePercentage
\* rounds it; with no subjects it returns 0, 0 and 0.00
C17_TotalAttendance ==
  LET subjects == Shown.subjects
      ks == 1..Len(subjects)
      sumPresent == SumOver(ks, [k \in ks |-> subjects[k].present])
      sumClasses == SumOver(ks, [k \in ks |-> subjects[k].present + subjects[k].absent])
      result == CalculateTotalAttendance(subjects)
  IN  /\ result.present = sumPresent
      /\ result.total = sumClasses
      /\ TwoDecimals(result.percentage)
      /\ sumClasses > 0
           => 2 * Abs(HundredthsOf(result.percentage) * sumClasses - 10000 * sumPresent)
                <= sumClasses
      /\ sumClasses = 0 => result.percentage = << "0", ".", "0", "0" >>
      /\ subjects = <<>>
           => result = [present |-> 0, total |-> 0, percentage |-> << "0", ".", "0", "0" >>]

\* two subjects with classes recorded, attended and missed ones among them
C17_Witness ==
  /\ Len(Shown.subjects) >= 2
  /\ \A k \in 1..Len(Shown.subjects) :
       Shown.subjects[k].present + Shown.subjects[k].absent >= 1
  /\ CalculateTotalAttendance(Shown.subjects).total >= 3
  /\ CalculateTotalAttendance(Shown.subjects).percentage = << "6", "6", ".", "6", "7" >>

\* the step issues one save, and that save carries the profile shown after it
IssuesSaveOfShown ==
  /\ issued' = issued + 1
  /\ Len(pending') = Len(pending) + 1
  /\ \A k \in 1..Len(pending) : pending'[k] = pending[k]
  /\ pending'[Len(pending')].data = Shown'

\* C18: updateAttendance(i, p) with i in bounds raises present of subject i by
\* one when p holds and absent of subject i by one otherwise, leaves its other
\* counter, its name, every other subject, the order and the profile name as
\* they were, and issues a save that carries the whole updated profile
C18_UpdateRaisesOneCounter ==
  [][\A i \in ApiIndexes, p \in BOOLEAN :
       (UpdateAttendance(i, p) /\ ~OutOfBounds(i))
       => /\ Shown'.name = Shown.name
          /\ Len(Shown'.subjects) = Len(Shown.subjects)
          /\ \A k \in 1..Len(Shown.subjects) :
               LET old == Shown.subjects[k]
                   new == Shown'.subjects[k]
               IN  /\ new.name = old.name
                   /\ new.present = old.present + (IF k = i + 1 /\ p THEN 1 ELSE 0)
                   /\ new.absent = old.absent + (IF k = i + 1 /\ ~p THEN 1 ELSE 0)
          /\ storage' = storage
          /\ IssuesSaveOfShown]_vars

\* 'Absent' was recorded for the second of two subjects while a save was in flight
C18_Witness ==
  /\ lastOp = Op("updateAttendance", NoAlert)
  /\ Len(pending) = 2
  /\ Len(Shown.subjects) >= 2
  /\ Shown.subjects[2].absent >= 1
  /\ pending[2].op = "updateAttendance"
  /\ pending[2].before.subjects[2].absent = Shown.subjects[2].absent - 1

IsSpaces(s) == \A k \in 1..Len(s) : s[k] \in Spaces

\* name is text without the white space at its two ends
IsTrimOf(name, text) ==
  /\ name # <<>> => name[1] \notin Spaces /\ name[Len(name)] \notin Spaces
  /\ \E a \in 0..Len(text), b \in 0..Len(text) :
       /\ a + Len(name) + b = Len(text)
       /\ IsSpaces(SubSeq(text, 1, a))
       /\ SubSeq(text, a + 1, a + Len(name)) = name
       /\ IsSpaces(SubSeq(text, a + Len(name) + 1, Len(text)))

\* C19: an accepted handleAddSubject(name) puts one subject with the trimmed
\* name and present = absent = 0 behind the subjects there were, leaves those,
\* their counters, their order and the profile name as they were, and issues a
\* save that carries the whole updated profile
C19_AddAppends ==
  [][\A n \in SubjectInputs :
       (HandleAddSubject(n) /\ lastOp'.alert = NoAlert)
       => /\ Shown'.name = Shown.name
          /\ Len(Shown'.subjects) = Len(Shown.subjects) + 1
          /\ \A k \in 1..Len(Shown.subjects) : Shown'.subjects[k] = Shown.subjects[k]
          /\ LET new == Shown'.subjects[Len(Shown'.subjects)]
             IN  /\ IsTrimOf(new.name, n)
                 /\ new.present = 0
                 /\ new.absent = 0
          /\ storage' = storage
          /\ IssuesSaveOfShown]_vars

\* a name typed with a leading space was added behind a subject with counts
C19_Witness ==
  /\ lastOp = Op("handleAddSubject", NoAlert)
  /\ Len(Shown.subjects) >= 2
  /\ Shown.subjects[Len(Shown.subjects)] = [name |-> << "M" >>, present |-> 0, absent |-> 0]
  /\ Shown.subjects[1].present >= 1

\* C20: whatever the search query is, 'Present' or 'Absent' on the card drawn
\* at position k raises a counter of the subject that card shows, and 'Delete'
\* on it asks for the index that subject has in the full list of subjects
C20_CardDenotesSubject ==
  [][\A k \in ApiIndexes :
       /\ (\E p \in BOOLEAN : PressAttendance(k, p))
            => /\ objs'[FilteredSubjects[k + 1]] # objs[FilteredSubjects[k + 1]]
               /\ \A o \in ObjIds \ {FilteredSubjects[k + 1]} : objs'[o] = objs[o]
       /\ PressDelete(k)
            => attendanceData.subjects[pendingDelete'[1].index + 1] = FilteredSubjects[k + 1]]_vars

\* the same with every subject displayed (empty search query)
CardDenotesSubjectUnfiltered ==
  [][\A k \in ApiIndexes :
       /\ (searchQuery = <<>> /\ \E p \in BOOLEAN : PressAttendance(k, p))
            => /\ objs'[FilteredSubjects[k + 1]] # objs[FilteredSubjects[k + 1]]
               /\ \A o \in ObjIds \ {FilteredSubjects[k + 1]} : objs'[o] = objs[o]
       /\ (searchQuery = <<>> /\ PressDelete(k))
            => attendanceData.subjects[pendingDelete'[1].index + 1] = FilteredSubjects[k + 1]]_vars

====
